---- MODULE Spec2Model ----
(***************************************************************************)
(* A model of three parts of eiktobel:                                     *)
(*   - the field descriptor base class AnyField (fields/any),              *)
(*   - the layered configuration (DecoratorConfig, GlobalConfig),          *)
(*   - the asynchronous ValueMapper.unpack.                                *)
(* JavaScript values are modelled as strings ("undefined", "null", "a"),   *)
(* an optional property or parameter as a sequence of length 0 (absent)    *)
(* or 1 (present), and object references as indexes into a heap.           *)
(***************************************************************************)
EXTENDS Integers, Sequences, FiniteSets, TLC

VARIABLES
  heap,         \* the AnyField objects constructed, in order of construction
  call,         \* the last call on a descriptor, with what it returned
  decorators,   \* the DecoratorConfig objects constructed, in order
  current,      \* GlobalConfig._current of __glob__
  held,         \* the reference a caller keeps from getGlobalConfig()
  heldAt,       \* how many globalConfig calls preceded that getGlobalConfig()
  lastOptions,  \* the options of the most recent globalConfig call, if any
  observed,     \* the handler last read through held, and after how many calls
  pc,           \* where each unpack call stands
  body,         \* the text of the response of each unpack call
  json,         \* the promise of response.json() of each unpack call
  unpackArg,    \* what unpackValue received in each unpack call, if invoked
  result        \* what each unpack call resolved to

fieldVars == <<heap, call>>
configVars == <<decorators, current, held, heldAt, lastOptions, observed>>
unpackVars == <<pc, body, json, unpackArg, result>>
vars == <<heap, call, decorators, current, held, heldAt, lastOptions, observed,
          pc, body, json, unpackArg, result>>

(***************************************************************************)
(* Bounds of the model.                                                    *)
(***************************************************************************)
\* the number of descriptors that may be constructed in one run
MaxObjects == 3
\* the number of globalConfig calls in one run
MaxConfigCalls == 3
\* the number of concurrent unpack calls
NumCalls == 3

\* values of the field type T, absent and null included
Values == {"undefined", "null", "a"}
\* the key representation a concrete field class reports ("null": none)
KeyKinds == {"null", "integer"}
\* the validation strategies a descriptor may carry
ChecksKinds == {"NoChecks", "RejectAll"}
\* the caller-supplied naming hints
Hints == {"id", "name"}

(***************************************************************************)
(* Collaborators that live outside the modelled files.                     *)
(***************************************************************************)
\* @module/validation: the successful result
valid == [valid |-> TRUE, error |-> ""]

\* @module/validation: a failed result carrying one error
invalid(message) == [valid |-> FALSE, error |-> message]

\* ./checks: NoChecks always succeeds; RejectAll stands for a strategy whose
\* rules no value satisfies
ChecksValidate(checks, value) ==
  IF checks = "NoChecks" THEN valid ELSE invalid("Rejected.")

\* @module/inference: the three variants of Likelihood (score is 0 where the
\* variant carries none)
LikelihoodExplicit == [variant |-> "explicit", score |-> 0]

LikelihoodImplicit(score) == [variant |-> "implicit", score |-> score]

LikelihoodNone == [variant |-> "none", score |-> 0]

\* @module/inference: the naming heuristic
isImplicitId(hints) ==
  IF hints = "id" THEN LikelihoodImplicit(1) ELSE LikelihoodNone

\* the default blank value of the concrete field class (e.g. the empty string)
defaultBlankValue == ""

(***************************************************************************)
(* AnyField                                                                *)
(***************************************************************************)
\* FieldOpts with no property set
NoOpts ==
  [blankValue |-> <<>>, isReadable |-> <<>>, isWritable |-> <<>>,
   useAsKey |-> <<>>, isNullable |-> <<>>, isOptional |-> <<>>, checks |-> <<>>]

explicitBlankValue(value) == [variant |-> "explicit", value |-> value]

\* a ?? b, on optional values
Nullish(a, b) == IF a # <<>> THEN a ELSE b

\* the constructor with isNullable taken from the options alone
AnyFieldDropsNullable(copyFrom, options) ==
  LET from(f) == IF copyFrom = <<>> THEN <<>> ELSE <<copyFrom[1][f]>>
      pick(f, dflt) == Nullish(options[f], Nullish(from(f), <<dflt>>))[1]
  IN  [blankValue |-> pick("blankValue", [variant |-> "unspecified"]),
       isReadable |-> pick("isReadable", TRUE),
       isWritable |-> pick("isWritable", TRUE),
       isNullable |-> Nullish(options.isNullable, <<FALSE>>)[1],
       isOptional |-> pick("isOptional", FALSE),
       useAsKey |-> pick("useAsKey", FALSE),
       checks |-> pick("checks", "NoChecks")]

\* the constructor: copyFrom is <<>> or <<descriptor>>, options a FieldOpts
AnyField(copyFrom, options) ==
  LET from(f) == IF copyFrom = <<>> THEN <<>> ELSE <<copyFrom[1][f]>>
      pick(f, dflt) == Nullish(options[f], Nullish(from(f), <<dflt>>))[1]
  IN  [blankValue |-> pick("blankValue", [variant |-> "unspecified"]),
       isReadable |-> pick("isReadable", TRUE),
       isWritable |-> pick("isWritable", TRUE),
       isNullable |-> pick("isNullable", FALSE),
       isOptional |-> pick("isOptional", FALSE),
       useAsKey |-> pick("useAsKey", FALSE),
       checks |-> pick("checks", "NoChecks")]

\* a descriptor object: the fields of AnyField and the key kind of its class
Descriptor(fields, kind) == fields @@ [keyKind |-> kind]

\* the concrete class's cloneAsSelf: a new object of the same class, built by
\* the constructor from this descriptor and the options
cloneAsSelf(h, this, options) ==
  Append(h, Descriptor(AnyField(<<h[this]>>, options), h[this].keyKind))

blankValue(this) ==
  IF this.blankValue.variant = "explicit" THEN this.blankValue.value
  ELSE defaultBlankValue

keyKind(this) == this.keyKind

\* isKey with the key kind tested before the explicit mark
isKeyKindFirst(this, hints) ==
  IF keyKind(this) = "null" THEN LikelihoodImplicit(0)
  ELSE IF this.useAsKey THEN LikelihoodExplicit
  ELSE isImplicitId(hints)

isKey(this, hints) ==
  IF this.useAsKey THEN LikelihoodExplicit
  ELSE IF keyKind(this) = "null" THEN LikelihoodImplicit(0)
  ELSE isImplicitId(hints)

\* validate with the optional test inverted
validateRequiredToChecks(this, value) ==
  IF ~this.isOptional \/ value # "undefined"
  THEN [result |-> ChecksValidate(this.checks, value), checksCalled |-> TRUE]
  ELSE [result |-> invalid("Required value missing."), checksCalled |-> FALSE]

\* the result, and whether the checks were asked
validate(this, value) ==
  IF this.isOptional \/ value # "undefined"
  THEN [result |-> ChecksValidate(this.checks, value), checksCalled |-> TRUE]
  ELSE [result |-> invalid("Required value missing."), checksCalled |-> FALSE]

\* the record of the last call on a descriptor: the receiver, the argument,
\* the descriptor returned (0: none), what console.warn received, and the
\* value returned by validate or isKey
NoCall ==
  [op |-> "none", self |-> 0, arg |-> "", ret |-> 0, warnings |-> <<>>,
   validation |-> valid, checksCalled |-> FALSE, likelihood |-> LikelihoodNone]

\* the options the concrete classes pass to the constructor of a fresh field
RootOpts ==
  {[NoOpts EXCEPT !.isNullable = n, !.isOptional = o, !.checks = c,
                  !.blankValue = b] :
     n \in {<<>>, <<TRUE>>}, o \in {<<>>, <<TRUE>>},
     c \in {<<>>} \cup {<<k>> : k \in ChecksKinds},
     b \in {<<>>, <<explicitBlankValue("null")>>}}

(***************************************************************************)
(* Values at rest of the configuration and of the unpack calls.            *)
(***************************************************************************)
\* references to Config objects: the built-in default, the k-th
\* DecoratorConfig constructed, the GlobalConfig singleton __glob__
DefaultConfigRef == [kind |-> "default", id |-> 0]

DecoratorRef(k) == [kind |-> "decorator", id |-> k]

GlobRef == [kind |-> "global", id |-> 0]

\* no reference obtained yet
NoRef == [kind |-> "none", id |-> 0]

\* no handler read yet
NoRead == [handler |-> "", calls |-> 0]

Calls == 1..NumCalls

\* response.json() not called yet
NoJson == [state |-> "none", value |-> ""]

Ids == 1..Len(heap)

CanBuild == Len(heap) < MaxObjects

withBlankValue(self, value) ==
  /\ CanBuild
  /\ heap' = cloneAsSelf(heap, self, [NoOpts EXCEPT !.blankValue = <<explicitBlankValue(value)>>])
  /\ call' = [NoCall EXCEPT !.op = "withBlankValue", !.self = self, !.arg = value,
                !.ret = Len(heap'),
                !.warnings = IF heap[self].blankValue.variant # "unspecified"
                             THEN <<"withBlankValue modifier used twice on the same field">>
                             ELSE <<>>]
  /\ UNCHANGED <<configVars, unpackVars>>

\* readOnly that only withdraws the write access
readOnlyKeepsReadable(self) ==
  /\ CanBuild
  /\ heap' = cloneAsSelf(heap, self, [NoOpts EXCEPT !.isWritable = <<FALSE>>])
  /\ call' = [NoCall EXCEPT !.op = "readOnly", !.self = self, !.ret = Len(heap'),
                !.warnings = IF ~heap[self].isReadable
                             THEN <<"readOnly modifier used on non-readable field">>
                             ELSE <<>>]
  /\ UNCHANGED <<configVars, unpackVars>>

readOnly(self) ==
  /\ CanBuild
  /\ heap' = cloneAsSelf(heap, self, [NoOpts EXCEPT !.isWritable = <<FALSE>>, !.isReadable = <<TRUE>>])
  /\ call' = [NoCall EXCEPT !.op = "readOnly", !.self = self, !.ret = Len(heap'),
                !.warnings = IF ~heap[self].isReadable
                             THEN <<"readOnly modifier used on non-readable field">>
                             ELSE <<>>]
  /\ UNCHANGED <<configVars, unpackVars>>

\* writeOnly that assigns the fields of the receiver and returns it
writeOnlyInPlace(self) ==
  /\ CanBuild
  /\ heap' = [heap EXCEPT ![self].isWritable = TRUE, ![self].isReadable = FALSE]
  /\ call' = [NoCall EXCEPT !.op = "writeOnly", !.self = self, !.ret = self,
                !.warnings = IF ~heap[self].isWritable
                             THEN <<"writeOnly modifier used on non-writable field">>
                             ELSE <<>>]
  /\ UNCHANGED <<configVars, unpackVars>>

writeOnly(self) ==
  /\ CanBuild
  /\ heap' = cloneAsSelf(heap, self, [NoOpts EXCEPT !.isWritable = <<TRUE>>, !.isReadable = <<FALSE>>])
  /\ call' = [NoCall EXCEPT !.op = "writeOnly", !.self = self, !.ret = Len(heap'),
                !.warnings = IF ~heap[self].isWritable
                             THEN <<"writeOnly modifier used on non-writable field">>
                             ELSE <<>>]
  /\ UNCHANGED <<configVars, unpackVars>>

\* asKey with the test of its warning inverted
asKeyWarnsOnFirstUse(self) ==
  /\ CanBuild
  /\ heap' = cloneAsSelf(heap, self, [NoOpts EXCEPT !.useAsKey = <<TRUE>>])
  /\ call' = [NoCall EXCEPT !.op = "asKey", !.self = self, !.ret = Len(heap'),
                !.warnings = IF ~heap[self].useAsKey
                             THEN <<"asKey modifier used twice on the same field">>
                             ELSE <<>>]
  /\ UNCHANGED <<configVars, unpackVars>>

asKey(self) ==
  /\ CanBuild
  /\ heap' = cloneAsSelf(heap, self, [NoOpts EXCEPT !.useAsKey = <<TRUE>>])
  /\ call' = [NoCall EXCEPT !.op = "asKey", !.self = self, !.ret = Len(heap'),
                !.warnings = IF heap[self].useAsKey
                             THEN <<"asKey modifier used twice on the same field">>
                             ELSE <<>>]
  /\ UNCHANGED <<configVars, unpackVars>>

\* a caller validates a value against a descriptor
Validate(self, value) ==
  /\ call' = [NoCall EXCEPT !.op = "validate", !.self = self, !.arg = value,
                !.validation = validate(heap[self], value).result,
                !.checksCalled = validate(heap[self], value).checksCalled]
  /\ UNCHANGED <<heap, configVars, unpackVars>>

\* a caller asks a descriptor whether it is the key
IsKey(self, hints) ==
  /\ call' = [NoCall EXCEPT !.op = "isKey", !.self = self, !.arg = hints,
                !.likelihood = isKey(heap[self], hints)]
  /\ UNCHANGED <<heap, configVars, unpackVars>>

\* a fresh field of some concrete class, and the other parts at rest
FieldInit ==
  /\ \E options \in RootOpts, kind \in KeyKinds :
       heap = <<Descriptor(AnyField(<<>>, options), kind)>>
  /\ call = NoCall
  /\ decorators = <<>>
  /\ current = DefaultConfigRef
  /\ held = NoRef
  /\ heldAt = 0
  /\ lastOptions = <<>>
  /\ observed = NoRead
  /\ pc = [c \in Calls |-> "idle"]
  /\ body = [c \in Calls |-> ""]
  /\ json = [c \in Calls |-> NoJson]
  /\ unpackArg = [c \in Calls |-> <<>>]
  /\ result = [c \in Calls |-> ""]

FieldNext ==
  \/ \E self \in Ids, value \in Values : withBlankValue(self, value)
  \/ \E self \in Ids : readOnly(self)
  \/ \E self \in Ids : writeOnly(self)
  \/ \E self \in Ids : asKey(self)
  \/ \E self \in Ids, value \in Values : Validate(self, value)
  \/ \E self \in Ids, hints \in Hints : IsKey(self, hints)

SpecField == FieldInit /\ [][FieldNext]_vars

(***************************************************************************)
(* DecoratorConfig and GlobalConfig                                        *)
(***************************************************************************)
\* the handler of defaultConfig
DefaultHandler == "builtin"

\* what a ConfigOverride may give for badResponseHandler: nothing, the reset
\* value, or a handler of the caller
OverrideValues == {"undefined", "default", "f1", "f2"}

RECURSIVE badResponseHandler(_)
RECURSIVE overrideConfigProperty(_)

\* DecoratorConfig.overrideConfigProperty('badResponseHandler')
overrideConfigProperty(this) ==
  LET finalValue == badResponseHandler(this.wrapped)
      option == this.overrides
  IN  IF option = "default" THEN DefaultHandler
      ELSE IF option # "undefined" THEN option
      ELSE finalValue

\* the getter badResponseHandler of the Config object a reference names
badResponseHandler(config) ==
  CASE config.kind = "default" -> DefaultHandler
    [] config.kind = "decorator" -> overrideConfigProperty(decorators[config.id])
    [] config.kind = "global" -> badResponseHandler(current)

\* new DecoratorConfig(wrapped, overrides)
DecoratorConfig(wrapped, overrides) == [wrapped |-> wrapped, overrides |-> overrides]

\* GlobalConfig.set layering the new decorator over the active configuration
GlobalConfigSetOverCurrent(options) ==
  /\ decorators' = Append(decorators, DecoratorConfig(current, options))
  /\ current' = DecoratorRef(Len(decorators'))

\* GlobalConfig.set
GlobalConfigSet(options) ==
  /\ decorators' = Append(decorators, DecoratorConfig(DefaultConfigRef, options))
  /\ current' = DecoratorRef(Len(decorators'))

globalConfig(options) ==
  /\ Len(decorators) < MaxConfigCalls
  /\ GlobalConfigSet(options)
  /\ lastOptions' = <<options>>
  /\ UNCHANGED <<held, heldAt, observed, fieldVars, unpackVars>>

\* getGlobalConfig handing out the active configuration itself
getGlobalConfigCurrent == current

\* the object getGlobalConfig() returns
getGlobalConfig == GlobRef

\* a caller obtains the configuration and keeps the reference
GetGlobalConfig ==
  /\ held' = getGlobalConfig
  /\ heldAt' = Len(decorators)
  /\ UNCHANGED <<decorators, current, lastOptions, observed, fieldVars, unpackVars>>

\* a caller reads badResponseHandler through the reference it keeps
ReadHandler ==
  /\ held # NoRef
  /\ observed' = [handler |-> badResponseHandler(held), calls |-> Len(decorators)]
  /\ UNCHANGED <<decorators, current, held, heldAt, lastOptions, fieldVars, unpackVars>>

\* one fixed field, the configuration as the module leaves it when loaded,
\* and no unpack call
ConfigInit ==
  /\ heap = <<Descriptor(AnyField(<<>>, NoOpts), "null")>>
  /\ call = NoCall
  /\ decorators = <<>>
  /\ current = DefaultConfigRef
  /\ held = NoRef
  /\ heldAt = 0
  /\ lastOptions = <<>>
  /\ observed = NoRead
  /\ pc = [c \in Calls |-> "idle"]
  /\ body = [c \in Calls |-> ""]
  /\ json = [c \in Calls |-> NoJson]
  /\ unpackArg = [c \in Calls |-> <<>>]
  /\ result = [c \in Calls |-> ""]

ConfigNext ==
  \/ \E options \in OverrideValues : globalConfig(options)
  \/ GetGlobalConfig
  \/ ReadHandler

SpecConfig == ConfigInit /\ [][ConfigNext]_vars

(***************************************************************************)
(* ValueMapper.unpack                                                      *)
(***************************************************************************)
\* the texts a response body may hold; the last is not JSON
Bodies == {"1", "true", "{"}

\* ResponseBody.json(): whether the text parses, and the value decoded
JsonParses(text) == text \in {"1", "true"}

JsonDecode(text) == IF text = "1" THEN "number 1" ELSE "boolean true"

\* unpackValue of the concrete mapper: the typed value made of a decoded one
unpackValue(response) == "T(" \o response \o ")"

\* unpack without its await: unpackValue receives the promise of json()
unpackNoAwait(c, text) ==
  /\ pc[c] = "idle"
  /\ body' = [body EXCEPT ![c] = text]
  /\ json' = [json EXCEPT ![c] = [state |-> "pending", value |-> ""]]
  /\ unpackArg' = [unpackArg EXCEPT ![c] = <<"[object Promise]">>]
  /\ result' = [result EXCEPT ![c] = unpackValue("[object Promise]")]
  /\ pc' = [pc EXCEPT ![c] = "resolved"]
  /\ UNCHANGED <<fieldVars, configVars>>

\* unpack up to its await: response.json() is called and the call suspends
unpack(c, text) ==
  /\ pc[c] = "idle"
  /\ body' = [body EXCEPT ![c] = text]
  /\ json' = [json EXCEPT ![c] = [state |-> "pending", value |-> ""]]
  /\ pc' = [pc EXCEPT ![c] = "awaiting"]
  /\ UNCHANGED <<unpackArg, result, fieldVars, configVars>>

\* the body has been read: the promise of json() settles
JsonSettle(c) ==
  /\ json[c].state = "pending"
  /\ json' = [json EXCEPT ![c] =
                IF JsonParses(body[c])
                THEN [state |-> "fulfilled", value |-> JsonDecode(body[c])]
                ELSE [state |-> "rejected", value |-> ""]]
  /\ UNCHANGED <<pc, body, unpackArg, result, fieldVars, configVars>>

\* unpack after its await: unpackValue on the decoded value, or the failure
\* of json() rethrown
UnpackResume(c) ==
  /\ pc[c] = "awaiting"
  /\ json[c].state \in {"fulfilled", "rejected"}
  /\ IF json[c].state = "fulfilled"
     THEN /\ unpackArg' = [unpackArg EXCEPT ![c] = <<json[c].value>>]
          /\ result' = [result EXCEPT ![c] = unpackValue(json[c].value)]
          /\ pc' = [pc EXCEPT ![c] = "resolved"]
     ELSE /\ pc' = [pc EXCEPT ![c] = "rejected"]
          /\ UNCHANGED <<unpackArg, result>>
  /\ UNCHANGED <<body, json, fieldVars, configVars>>

UnpackInit ==
  /\ heap = <<Descriptor(AnyField(<<>>, NoOpts), "null")>>
  /\ call = NoCall
  /\ decorators = <<>>
  /\ current = DefaultConfigRef
  /\ held = NoRef
  /\ heldAt = 0
  /\ lastOptions = <<>>
  /\ observed = NoRead
  /\ pc = [c \in Calls |-> "idle"]
  /\ body = [c \in Calls |-> ""]
  /\ json = [c \in Calls |-> NoJson]
  /\ unpackArg = [c \in Calls |-> <<>>]
  /\ result = [c \in Calls |-> ""]

UnpackNext ==
  \/ \E c \in Calls, text \in Bodies : unpack(c, text)
  \/ \E c \in Calls : JsonSettle(c)
  \/ \E c \in Calls : UnpackResume(c)

SpecUnpack == UnpackInit /\ [][UnpackNext]_vars

(***************************************************************************)
(* Properties                                                              *)
(***************************************************************************)
Builders == {"withBlankValue", "readOnly", "writeOnly", "asKey"}

\* the options of a descriptor object
OptionNames ==
  {"blankValue", "isReadable", "isWritable", "isNullable", "isOptional",
   "useAsKey", "checks", "keyKind"}

\* the handler a ConfigOverride selects: its own, or the built-in one when it
\* resets or omits the property; lastCall is <<>> before any call
SelectedBy(lastCall) ==
  IF lastCall = <<>> THEN DefaultHandler
  ELSE IF lastCall[1] \in {"default", "undefined"} THEN DefaultHandler
  ELSE lastCall[1]

\* C1: on an optional descriptor, validate(undefined) succeeds whatever the
\* configured checks are, a strategy that rejects every value included.
C1OptionalAbsentAccepted ==
  (call.op = "validate" /\ call.arg = "undefined" /\ heap[call.self].isOptional)
    => call.validation.valid

\* C2: on a descriptor that is not optional, validate(undefined) returns the
\* invalid result 'Required value missing.' and the checks are not consulted.
C2RequiredAbsentRejected ==
  (call.op = "validate" /\ call.arg = "undefined" /\ ~heap[call.self].isOptional)
    => /\ call.validation = invalid("Required value missing.")
       /\ ~call.checksCalled

\* C2 happens: a required descriptor whose checks reject everything was asked
\* to validate the absent value.
C2Witness ==
  /\ call.op = "validate"
  /\ call.arg = "undefined"
  /\ ~heap[call.self].isOptional
  /\ heap[call.self].checks = "RejectAll"

\* C3: the descriptor readOnly returns is readable and not writable, the one
\* writeOnly returns is writable and not readable, whatever the access flags
\* of the descriptor it was applied to (the last application alone decides).
C3LastAccessWins ==
  /\ call.op = "readOnly"
       => heap[call.ret].isReadable /\ ~heap[call.ret].isWritable
  /\ call.op = "writeOnly"
       => ~heap[call.ret].isReadable /\ heap[call.ret].isWritable

\* C3 happens: readOnly was applied to a descriptor that writeOnly had made.
C3Witness ==
  /\ call.op = "readOnly"
  /\ call.self > 1
  /\ ~heap[call.self].isReadable
  /\ heap[call.self].isWritable

\* C4: no step changes a descriptor that exists: every descriptor keeps all of
\* its options through every builder operation, on it or on another one.
C4BuildersNeverMutate ==
  [][\A i \in 1..Len(heap) : i <= Len(heap') /\ heap'[i] = heap[i]]_vars

\* C4 happens: a builder was applied to a derived descriptor and returned one
\* with other options.
C4Witness ==
  /\ call.op \in Builders
  /\ call.self > 1
  /\ heap[call.ret] # heap[call.self]

\* C5: the handler read through getGlobalConfig() is the one the most recent
\* globalConfig call selects (its literal handler, the built-in one for
\* 'default' or an omitted property), and the built-in one before any call.
C5LastConfigWins ==
  badResponseHandler(getGlobalConfig) = SelectedBy(lastOptions)

\* C5 happens: a call that omits the handler followed a call that gave one, and
\* the handler is the built-in one again.
C5Witness ==
  /\ Len(decorators) >= 2
  /\ decorators[Len(decorators) - 1].overrides \in {"f1", "f2"}
  /\ lastOptions = <<"undefined">>
  /\ badResponseHandler(getGlobalConfig) = DefaultHandler

\* C6: isKey is explicit on a descriptor marked with asKey, for every hint and
\* key kind; otherwise implicit(0) when the key kind is null; otherwise the
\* value of isImplicitId(hints).
C6IsKeyPrecedence ==
  call.op = "isKey" =>
    /\ heap[call.self].useAsKey => call.likelihood = LikelihoodExplicit
    /\ (~heap[call.self].useAsKey /\ heap[call.self].keyKind = "null")
         => call.likelihood = LikelihoodImplicit(0)
    /\ (~heap[call.self].useAsKey /\ heap[call.self].keyKind # "null")
         => call.likelihood = isImplicitId(call.arg)

\* C6 happens: isKey was asked of a descriptor marked as key whose class has no
\* key kind.
C6Witness ==
  /\ call.op = "isKey"
  /\ heap[call.self].useAsKey
  /\ heap[call.self].keyKind = "null"

\* the descriptor a builder returned has the option the builder sets
HasRequested ==
  LET d == heap[call.ret]
  IN  /\ call.op = "asKey" => d.useAsKey
      /\ call.op = "readOnly" => d.isReadable /\ ~d.isWritable
      /\ call.op = "writeOnly" => ~d.isReadable /\ d.isWritable
      /\ call.op = "withBlankValue" => d.blankValue = explicitBlankValue(call.arg)

\* C7 as stated: a builder applied to a descriptor already in the state it
\* produces (asKey on a key, readOnly on a read-only descriptor, writeOnly on a
\* write-only one, withBlankValue on an explicit blank value) warns, and
\* returns a descriptor with the requested option.
C7WarnsWhenAlreadyInState ==
  call.op \in Builders =>
    LET s == heap[call.self]
        already == \/ call.op = "asKey" /\ s.useAsKey
                   \/ call.op = "readOnly" /\ s.isReadable /\ ~s.isWritable
                   \/ call.op = "writeOnly" /\ ~s.isReadable /\ s.isWritable
                   \/ call.op = "withBlankValue" /\ s.blankValue.variant = "explicit"
    IN  already => (call.warnings # <<>> /\ HasRequested)

\* C7 amended: asKey on a descriptor marked as key, readOnly on a descriptor
\* that is not readable, writeOnly on a descriptor that is not writable and
\* withBlankValue on an explicit blank value warn, and each returns a
\* descriptor with the requested option; readOnly on a readable descriptor and
\* writeOnly on a writable one do not warn.
C7WarnsOnConflict ==
  call.op \in Builders =>
    LET s == heap[call.self]
        conflict == \/ call.op = "asKey" /\ s.useAsKey
                    \/ call.op = "readOnly" /\ ~s.isReadable
                    \/ call.op = "writeOnly" /\ ~s.isWritable
                    \/ call.op = "withBlankValue" /\ s.blankValue.variant = "explicit"
    IN  /\ conflict => (call.warnings # <<>> /\ HasRequested)
        /\ (call.op = "readOnly" /\ s.isReadable) => call.warnings = <<>>
        /\ (call.op = "writeOnly" /\ s.isWritable) => call.warnings = <<>>

\* C7 happens: asKey was applied to a descriptor already marked as key, and
\* warned.
C7Witness ==
  /\ call.op = "asKey"
  /\ heap[call.self].useAsKey
  /\ call.warnings # <<>>

\* C8: the descriptor a builder returns differs from the one it was applied to
\* in the targeted options only: withBlankValue(v) in the blank value, which
\* then reads v; asKey in the key flag; readOnly and writeOnly in isReadable
\* and isWritable.
C8OnlyTargetedOptionsChange ==
  call.op \in Builders =>
    LET s == heap[call.self]
        d == heap[call.ret]
        Same(F) == \A f \in F : d[f] = s[f]
    IN  /\ call.op = "withBlankValue"
             => blankValue(d) = call.arg /\ Same(OptionNames \ {"blankValue"})
        /\ call.op = "asKey"
             => d.useAsKey /\ Same(OptionNames \ {"useAsKey"})
        /\ call.op \in {"readOnly", "writeOnly"}
             => Same(OptionNames \ {"isReadable", "isWritable"})

\* C8 happens: withBlankValue(undefined) was applied to an optional, nullable
\* descriptor that an earlier builder had marked as key.
C8Witness ==
  /\ call.op = "withBlankValue"
  /\ call.arg = "undefined"
  /\ call.self > 1
  /\ heap[call.self].useAsKey
  /\ heap[call.self].isOptional
  /\ heap[call.self].isNullable
  /\ heap[call.self].checks = "RejectAll"
  /\ blankValue(heap[call.ret]) = "undefined"

\* C9: unpackValue is invoked only once json() is fulfilled, with the value
\* decoded from the call's own response, and the call resolves to its result;
\* when json() is rejected unpackValue is not invoked and the call fails.
C9UnpackAfterJson ==
  \A c \in Calls :
    /\ unpackArg[c] # <<>>
         => /\ json[c].state = "fulfilled"
            /\ unpackArg[c] = <<JsonDecode(body[c])>>
    /\ pc[c] = "resolved"
         => /\ unpackArg[c] # <<>>
            /\ result[c] = unpackValue(JsonDecode(body[c]))
    /\ json[c].state = "rejected"
         => unpackArg[c] = <<>> /\ pc[c] \in {"awaiting", "rejected"}
    /\ pc[c] = "rejected" => json[c].state = "rejected"

\* C9 happens: three calls on different bodies are in flight; the first has
\* resolved, the second has its body decoded and has not resumed, the third
\* has failed.
C9Witness ==
  /\ pc[1] = "resolved"
  /\ pc[2] = "awaiting"
  /\ json[2].state = "fulfilled"
  /\ body[1] # body[2]
  /\ pc[3] = "rejected"

\* the handler that was active after k calls of globalConfig
HandlerAfter(k) ==
  IF k = 0 THEN DefaultHandler ELSE SelectedBy(<<decorators[k].overrides>>)

\* C10: getGlobalConfig() always returns the one GlobalConfig object, and a
\* handler read through a reference to it is the one the most recent
\* globalConfig call selects, also when the reference was obtained earlier.
C10ReadThroughSingleton ==
  /\ held # NoRef => held = GlobRef
  /\ (observed # NoRead /\ observed.calls = Len(decorators))
       => observed.handler = SelectedBy(lastOptions)

\* C10 happens: a reference obtained before a globalConfig call was read after
\* it, and gave another handler than the one active when it was obtained.
C10Witness ==
  /\ held # NoRef
  /\ observed # NoRead
  /\ observed.calls = Len(decorators)
  /\ heldAt < Len(decorators)
  /\ observed.handler # HandlerAfter(heldAt)
====
